---- MODULE Spec2Model ----
(***************************************************************************)
(* Ticket store of the field-engineer ticketing app: the useTickets hook   *)
(* (loadTickets, createTicket, updateTicket, assignTicket, deleteTicket,   *)
(* addComment, getTicketActivities, getOverdueTickets) with its real-time  *)
(* subscription,                                                           *)
(* the in-memory mock provider (mockDbHelpers), the live provider reached  *)
(* through the supabase client, and the withFallback circuit breaker; and  *)
(* the useAuth hook (signIn, signOut) over the mock-auth module.            *)
(*                                                                         *)
(* Every asynchronous operation is a call in the bag `calls`; one action   *)
(* models the code that runs between two awaits.  Time is a logical clock  *)
(* `now` that ticks whenever a writing operation starts.                   *)
(***************************************************************************)
EXTENDS Integers, Sequences, FiniteSets, Bags, TLC

\* ------------------------------------------------------------------ bounds
MaxWrites == 2          \* create/update/assign/delete calls started in a run
MaxCalls == 1           \* asynchronous calls in flight at once
MaxSessions == 2        \* mounts of the hook under another user in a run
MaxActivityWrites == 1  \* writing calls started in a run with activity operations
MaxRaceCalls == 2       \* asynchronous calls in flight at once in a run with races
MaxRaceWrites == 3      \* writing calls started in a run with races
MaxAuthCalls == 2       \* signIn / signOut calls in flight at once

\* ------------------------------------------------------------- vocabulary
NoUser == "none"        \* null / undefined user reference
Absent == "absent"      \* key not present in a Partial<Ticket>
NoTime == 0             \* null / undefined timestamp
AbsentT == -1           \* timestamp key not present in a Partial<Ticket>
UndefT == -2            \* timestamp key present with the value undefined

Statuses == {"open", "assigned", "in_progress", "resolved", "verified", "closed"}

\* mockUsers: id -> role
Users == {"1", "2", "3"}
Role(u) ==
  CASE u = "1" -> "admin"
    [] u = "2" -> "supervisor"
    [] u = "3" -> "field_engineer"
    [] OTHER -> "none"

\* ---------------------------------------------------------------- tickets
\* The fixture instants, ranked: 1 = 2024-01-10T14:00 ... 11 = 2024-01-17T17:00.
mockTickets ==
  << [id |-> "1", status |-> "open", created_by |-> "1", assigned_to |-> "3",
      verified_by |-> NoUser, created_at |-> 8, updated_at |-> 8,
      assigned_at |-> NoTime, resolved_at |-> NoTime, verified_at |-> NoTime,
      due_date |-> 11],
     [id |-> "2", status |-> "in_progress", created_by |-> "2", assigned_to |-> "3",
      verified_by |-> NoUser, created_at |-> 5, updated_at |-> 7,
      assigned_at |-> 6, resolved_at |-> NoTime, verified_at |-> NoTime,
      due_date |-> 10],
     [id |-> "3", status |-> "resolved", created_by |-> "1", assigned_to |-> "3",
      verified_by |-> "2", created_at |-> 1, updated_at |-> 4,
      assigned_at |-> 2, resolved_at |-> 3, verified_at |-> 4,
      due_date |-> 9] >>

\* The first instant after every fixture instant: the session starts there.
StartNow == mockTickets[1].due_date + 1

\* ------------------------------------------------------------- sequences
RECURSIVE SeqIndex(_, _, _)
\* findIndex(t => t.id === id), 0 for -1
SeqIndex(s, id, i) ==
  IF i > Len(s) THEN 0
  ELSE IF s[i].id = id THEN i
  ELSE SeqIndex(s, id, i + 1)

HasId(s, id) == SeqIndex(s, id, 1) # 0

RECURSIVE InsertDesc(_, _)
InsertDesc(s, t) ==
  IF s = << >> THEN <<t>>
  ELSE IF t.created_at >= Head(s).created_at THEN <<t>> \o s
  ELSE <<Head(s)>> \o InsertDesc(Tail(s), t)

RECURSIVE OrderByCreatedDesc(_)
\* .order('created_at', { ascending: false })
OrderByCreatedDesc(s) ==
  IF s = << >> THEN << >>
  ELSE InsertDesc(OrderByCreatedDesc(Tail(s)), Head(s))

\* ---------------------------------------------------------------- patches
\* A Partial<Ticket> restricted to the lifecycle fields.
NoPatch ==
  [status |-> Absent, assigned_to |-> Absent, verified_by |-> Absent,
   assigned_at |-> AbsentT, resolved_at |-> AbsentT, verified_at |-> AbsentT]

StatusPatch(s) == [NoPatch EXCEPT !.status = s]

\* the object literal assignTicket hands to updateTicket
AssignPatch(assignedTo, date) ==
  [NoPatch EXCEPT !.assigned_to = assignedTo,
                  !.status = IF assignedTo # NoUser THEN "assigned" ELSE "open",
                  !.assigned_at = IF assignedTo # NoUser THEN date ELSE UndefT]

\* !x for a timestamp of a patch: absent, undefined and null are falsy
Falsy(t) == t <= NoTime

\* updateTicket: dbUpdates, the patch sent to the live provider
DbUpdates(updates, userId, date) ==
  LET a == IF updates.status = "assigned" /\ Falsy(updates.assigned_at)
           THEN [updates EXCEPT !.assigned_at = date] ELSE updates
      r == IF updates.status = "resolved" /\ Falsy(updates.resolved_at)
           THEN [a EXCEPT !.resolved_at = date] ELSE a
  IN IF updates.status = "verified" /\ Falsy(updates.verified_at)
     THEN [r EXCEPT !.verified_at = date, !.verified_by = userId] ELSE r

\* { ...ticket, ...updates }: every key of the patch overwrites, undefined included
SpreadUser(old, new) == IF new = Absent THEN old ELSE new
SpreadTime(old, new) ==
  IF new = AbsentT THEN old ELSE IF new = UndefT THEN NoTime ELSE new

\* the JSON body of the live update: keys whose value is undefined are dropped
JsonTime(old, new) == IF new = AbsentT \/ new = UndefT THEN old ELSE new

\* mockDbHelpers.updateTicket: the updated ticket
MockUpdated(t, updates, date) ==
  [t EXCEPT !.status = SpreadUser(t.status, updates.status),
            !.assigned_to = SpreadUser(t.assigned_to, updates.assigned_to),
            !.verified_by = SpreadUser(t.verified_by, updates.verified_by),
            !.assigned_at = SpreadTime(t.assigned_at, updates.assigned_at),
            !.resolved_at = SpreadTime(t.resolved_at, updates.resolved_at),
            !.verified_at = SpreadTime(t.verified_at, updates.verified_at),
            !.updated_at = date]

\* supabase.from('tickets').update(dbUpdates).eq('id', ticketId): the updated row
LiveUpdated(t, dbUpdates) ==
  [t EXCEPT !.status = SpreadUser(t.status, dbUpdates.status),
            !.assigned_to = SpreadUser(t.assigned_to, dbUpdates.assigned_to),
            !.verified_by = SpreadUser(t.verified_by, dbUpdates.verified_by),
            !.assigned_at = JsonTime(t.assigned_at, dbUpdates.assigned_at),
            !.resolved_at = JsonTime(t.resolved_at, dbUpdates.resolved_at),
            !.verified_at = JsonTime(t.verified_at, dbUpdates.verified_at)]

\* mockDbHelpers.createTicket: newTicket
MockNewTicket(nextId, draft, userId, date) ==
  [id |-> ToString(nextId), status |-> "open", created_by |-> userId,
   assigned_to |-> NoUser, verified_by |-> NoUser,
   created_at |-> date, updated_at |-> date,
   assigned_at |-> NoTime, resolved_at |-> NoTime, verified_at |-> NoTime,
   due_date |-> draft.due_date]

\* the row the live insert returns: the column defaults of the tickets table
LiveNewTicket(nextId, draft, userId, date) ==
  [id |-> "L" \o ToString(nextId), status |-> "open", created_by |-> userId,
   assigned_to |-> NoUser, verified_by |-> NoUser,
   created_at |-> date, updated_at |-> date,
   assigned_at |-> NoTime, resolved_at |-> NoTime, verified_at |-> NoTime,
   due_date |-> draft.due_date]

\* variant: the filter keeps the assignee's tickets only
VisibleAssignedOnly(store, userId, role) ==
  IF role = "field_engineer" /\ userId # NoUser
  THEN SelectSeq(store, LAMBDA t : t.assigned_to = userId)
  ELSE store

\* role-based filtering of getTicketsWithRelations (mock and live alike)
Visible(store, userId, role) ==
  IF role = "field_engineer" /\ userId # NoUser
  THEN SelectSeq(store, LAMBDA t : t.created_by = userId \/ t.assigned_to = userId)
  ELSE store

\* prev.map(t => t.id === ticketId ? transformedTicket : t)
MapReplace(prev, ticketId, t) ==
  [i \in 1..Len(prev) |-> IF prev[i].id = ticketId THEN t ELSE prev[i]]

\* prev.filter(t => t.id !== ticketId)
FilterOut(prev, ticketId) == SelectSeq(prev, LAMBDA t : t.id # ticketId)

\* variant: the route ignores the availability flag
FallbackRouteIgnoringFlag(available, configured, mockFallback) ==
  IF ~configured
  THEN IF mockFallback THEN "mock" ELSE "throw"
  ELSE "live"

\* withFallback, before the live call: where the operation goes
FallbackRoute(available, configured, mockFallback) ==
  IF ~available \/ ~configured
  THEN IF mockFallback THEN "mock" ELSE "throw"
  ELSE "live"

\* ---------------------------------------------------------------- overdue
\* variant: a resolved ticket still counts as overdue
getOverdueTicketsUnlessVerified(list, date) ==
  SelectSeq(list, LAMBDA t :
    /\ t.due_date # NoTime
    /\ t.due_date < date
    /\ t.status \notin {"verified", "closed"})

\* useTickets.getOverdueTickets, with `date` for new Date()
getOverdueTickets(list, date) ==
  SelectSeq(list, LAMBDA t :
    /\ t.due_date # NoTime
    /\ t.due_date < date
    /\ t.status \notin {"resolved", "verified", "closed"})

\* AdminDashboard: overdueTickets, the count it shows
overdueTickets(list, date) ==
  Len(SelectSeq(list, LAMBDA t :
    /\ t.due_date # NoTime
    /\ t.due_date < date
    /\ ~(t.status \in {"resolved", "verified", "closed"})))

\* ------------------------------------------------------------- activities
\* An Activity restricted to ticket_id, user_id, type and created_at.
\* mockDbHelpers.getTicketActivities: the three activities it makes up for any
\* ticket id, dated 24, 23 and 2 hours before the call
mockActivities(ticketId, date) ==
  << [ticket_id |-> ticketId, user_id |-> "1", type |-> "created",
      created_at |-> date - 24],
     [ticket_id |-> ticketId, user_id |-> "2", type |-> "assigned",
      created_at |-> date - 23],
     [ticket_id |-> ticketId, user_id |-> "3", type |-> "comment",
      created_at |-> date - 2] >>

\* addComment: the row inserted into ticket_activities (created_at: the insert time)
NewComment(ticketId, userId, date) ==
  [ticket_id |-> ticketId, user_id |-> userId, type |-> "comment",
   created_at |-> date]

\* .eq('ticket_id', ticketId)
ActivitiesOf(rows, ticketId) == SelectSeq(rows, LAMBDA a : a.ticket_id = ticketId)

\* ---------------------------------------------------------- notifications
\* useNotificationSystem: the Notification records each dispatch creates.
NotifyTicketCreated(t) ==
  LET n(u) == [user_id |-> u, ticket_id |-> t.id, event |-> "created"]
  IN <<n("1"), n("2")>>

NotifyTicketResolved(t, actorId) ==
  <<[user_id |-> t.created_by, ticket_id |-> t.id, event |-> "resolved"]>>

NotifyTicketAssigned(t, assigneeId, actorId) ==
  IF assigneeId = actorId THEN << >>
  ELSE <<[user_id |-> assigneeId, ticket_id |-> t.id, event |-> "assigned"]>>

\* updateTicket: which dispatches the update makes (lines 246-251)
UpdateNotifications(t, updates, actorId) ==
  (IF updates.status = "resolved" THEN NotifyTicketResolved(t, actorId) ELSE << >>)
  \o (IF updates.assigned_to \notin {Absent, NoUser}
         /\ updates.assigned_to # t.created_by
      THEN NotifyTicketAssigned(t, updates.assigned_to, actorId) ELSE << >>)

\* --------------------------------------------------------- authentication
\* mock-auth: the accounts of the mockUsers map, by key
mockAuthUsers ==
  [key \in {"admin@test.com", "supervisor@test.com", "engineer@test.com"} |->
     CASE key = "admin@test.com" ->
            [id |-> "1", password |-> "admin123", is_active |-> TRUE]
       [] key = "supervisor@test.com" ->
            [id |-> "2", password |-> "supervisor123", is_active |-> TRUE]
       [] key = "engineer@test.com" ->
            [id |-> "3", password |-> "engineer123", is_active |-> TRUE]]

\* the emails and passwords signIn is called with
Emails == {"admin@test.com", " Engineer@Test.com", "nobody@test.com"}
Passwords == {"admin123", "engineer123", "wrong"}

\* credentials.email.toLowerCase().trim()
Normalize(email) ==
  CASE email = " Engineer@Test.com" -> "engineer@test.com"
    [] OTHER -> email

\* variant: the password is not compared
SignInErrorAnyPassword(accounts, email, password) ==
  LET key == Normalize(email)
  IN IF key \notin DOMAIN accounts THEN "Invalid email"
     ELSE IF ~accounts[key].is_active THEN "Account is deactivated"
     ELSE "none"

\* mockAuth.signInWithPassword: the error it throws, "none" when it signs in
SignInError(accounts, email, password) ==
  LET key == Normalize(email)
  IN IF key \notin DOMAIN accounts THEN "Invalid email"
     ELSE IF accounts[key].password # password THEN "Invalid password"
     ELSE IF ~accounts[key].is_active THEN "Account is deactivated"
     ELSE "none"

\* mockAuth.getSession: the session it returns (memory first, then storage)
getSession(memory, stored) == IF memory # NoUser THEN memory ELSE stored

\* ------------------------------------------------------------------ state
VARIABLES
  isConfigured,        \* config.supabase.isConfigured
  enableMockFallback,  \* isFeatureEnabled('enableMockFallback')
  supabaseAvailable,   \* the module-level availability flag
  connectionCheck,     \* checkSupabaseConnection of module load: "pending" | "done"
  liveTickets,         \* rows of the live tickets table, in insertion order
  liveNextId,          \* the next id the live table hands out
  liveActivities,      \* rows of the live ticket_activities table, in insertion order
  currentMockTickets,  \* the mock provider's store
  nextTicketId,        \* the mock provider's id counter
  user,                \* the signed-in user useTickets sees (NoUser: nobody)
  tickets,             \* useTickets: the local ticket list
  loading,             \* useTickets: loading
  error,               \* useTickets: error
  calls,               \* the asynchronous calls in flight, a bag
  notifications,       \* the Notification records created so far
  now,                 \* the clock
  sessions,            \* mounts under another user so far
  everAssigned,        \* history: ids of the tickets stored with status assigned so far
  returned,            \* how the call that returned last ended
  currentSession,      \* mock-auth: the session held in memory (its user; NoUser: null)
  storedSession,       \* localStorage 'mock_session' (its user; NoUser: no item)
  authState,           \* useAuth: state (user, loading, initialized)
  authCalls,           \* the signIn / signOut calls in flight
  authReturned         \* how the signIn or signOut that returned last ended

vars ==
  <<isConfigured, enableMockFallback, supabaseAvailable, connectionCheck,
    liveTickets, liveNextId, liveActivities, currentMockTickets, nextTicketId, user, tickets,
    loading, error, calls, notifications, now, sessions, everAssigned,
    returned, currentSession, storedSession, authState, authCalls, authReturned>>

config == <<isConfigured, enableMockFallback>>
live == <<liveTickets, liveNextId, liveActivities>>
mock == <<currentMockTickets, nextTicketId>>
hook == <<tickets, loading, error>>
auth == <<currentSession, storedSession, authState, authCalls, authReturned>>

\* the ticketData createTicket is called with: the required fields and due_date
NoDraft == [title |-> "", description |-> "", location |-> "", due_date |-> NoTime]
ValidDraft ==
  [title |-> "Pump fault", description |-> "Pump P-3 trips", location |-> "Bay 3",
   due_date |-> NoTime]
\* a due date in the future of every run
Later == StartNow + 100
Drafts ==
  {ValidDraft, [ValidDraft EXCEPT !.due_date = Later],
   [ValidDraft EXCEPT !.title = ""],
   [ValidDraft EXCEPT !.description = ""], [ValidDraft EXCEPT !.location = ""]}

NewCall ==
  [op |-> "none", pc |-> "none", actor |-> NoUser, id |-> "", draft |-> NoDraft,
   updates |-> NoPatch, dbUpdates |-> NoPatch, data |-> << >>,
   via |-> "none", liveFailed |-> FALSE]

NoReturn ==
  [op |-> "none", actor |-> NoUser, id |-> "", outcome |-> "none", error |-> "none",
   via |-> "none", liveFailed |-> FALSE]

NoAuthReturn == [op |-> "none", outcome |-> "none", error |-> "none", user |-> NoUser]

InFlight == BagToSet(calls)
HasFree(n) == BagCardinality(calls) < n
Started(c) == calls (+) SetToBag({c})
Replaced(c, d) == (calls (-) SetToBag({c})) (+) SetToBag({d})
Ended(c) == calls (-) SetToBag({c})

\* the ids of the tickets of a store whose status is assigned
StoredAssigned(store) ==
  {store[i].id : i \in {j \in 1..Len(store) : store[j].status = "assigned"}}

Init ==
  /\ isConfigured \in BOOLEAN
  /\ enableMockFallback \in BOOLEAN
  /\ supabaseAvailable = isConfigured
  /\ connectionCheck = IF isConfigured THEN "pending" ELSE "done"
  /\ liveTickets = << >>
  /\ liveNextId = 1
  /\ liveActivities = << >>
  /\ currentMockTickets = mockTickets
  /\ nextTicketId = 4
  /\ user = NoUser
  /\ tickets = << >>
  /\ loading = FALSE
  /\ error = "none"
  /\ calls = EmptyBag
  /\ notifications = << >>
  /\ now = StartNow
  /\ sessions = 0
  /\ everAssigned = StoredAssigned(mockTickets)
  /\ returned = NoReturn
  /\ currentSession = NoUser
  /\ storedSession = NoUser
  /\ authState = [user |-> NoUser, loading |-> FALSE, initialized |-> TRUE]
  /\ authCalls = {}
  /\ authReturned = NoAuthReturn

\* ---------------------------------------------------------------- helpers
Ret(c, outcome, err) ==
  [op |-> c.op, actor |-> c.actor, id |-> c.id, outcome |-> outcome, error |-> err,
   via |-> c.via, liveFailed |-> c.liveFailed]

CanWrite(n) == now < StartNow + n

\* the ids an update or a delete is called with: every stored ticket, and one
\* that no ticket has
MissingId == "0"
KnownIds ==
  {currentMockTickets[i].id : i \in 1..Len(currentMockTickets)}
    \cup {liveTickets[i].id : i \in 1..Len(liveTickets)}
    \cup {MissingId}

\* the patches updateTicket is called with directly
UpdateInputs == {StatusPatch(s) : s \in {"in_progress", "resolved", "verified", "closed"}}
\* the assignees assignTicket is called with
AssignInputs == {NoUser, "3"}

\* ---------------------------------------------------------------- actions
\* loadTickets up to its first await: the route withFallback takes; a throw of
\* withFallback is caught by loadTickets, which then asks the mock provider.
StartLoad(u) ==
  LET route == FallbackRoute(supabaseAvailable, isConfigured, enableMockFallback)
  IN /\ loading' = TRUE
     /\ error' = "none"
     /\ calls' = Started([NewCall EXCEPT !.op = "load", !.actor = u,
                            !.pc = IF route = "live" THEN "live" ELSE "mock"])

\* module load: checkSupabaseConnection()
CheckSupabaseConnection ==
  /\ connectionCheck = "pending"
  /\ connectionCheck' = "done"
  /\ \E ok \in BOOLEAN : supabaseAvailable' = (supabaseAvailable /\ ok)
  /\ UNCHANGED <<config, live, mock, user, hook, calls, notifications, now,
                 sessions,
                 everAssigned, returned>>
  /\ UNCHANGED auth

\* useTickets is mounted anew and useAuth hands it the user u: the hook's
\* state starts over and the effect of lines 17-24 runs
SessionChange(u) ==
  /\ u # user
  /\ calls = EmptyBag
  /\ user' = u
  /\ sessions' = sessions + 1
  /\ tickets' = << >>
  /\ IF u # NoUser
     THEN StartLoad(u)
     ELSE /\ loading' = FALSE
          /\ UNCHANGED <<error, calls>>
  /\ UNCHANGED <<config, supabaseAvailable, connectionCheck, live, mock,
                 notifications, now, everAssigned,
                 returned>>
  /\ UNCHANGED auth

\* a caller invokes loadTickets()
LoadTickets ==
  /\ IF user = NoUser
     THEN /\ returned' = [NoReturn EXCEPT !.op = "load", !.outcome = "ok"]
          /\ UNCHANGED <<hook, calls>>
     ELSE /\ StartLoad(user)
          /\ UNCHANGED <<tickets, returned>>
  /\ UNCHANGED <<config, supabaseAvailable, connectionCheck, live, mock, user,
                 notifications, now, sessions,
                 everAssigned>>
  /\ UNCHANGED auth

\* the real-time subscription delivers a change of the tickets table: the
\* callback of lines 31-36 reloads the list
TicketsChanged ==
  /\ isConfigured
  /\ user # NoUser
  /\ StartLoad(user)
  /\ UNCHANGED <<config, supabaseAvailable, connectionCheck, live, mock, user,
                 tickets, notifications, now, sessions,
                 everAssigned, returned>>
  /\ UNCHANGED auth

\* variant: the guard lets everybody through
UnauthenticatedNever(u) == FALSE

\* if (!user)
Unauthenticated(u) == u = NoUser

NotAuthenticated(op, id) ==
  [NoReturn EXCEPT !.op = op, !.id = id, !.outcome = "error",
                   !.error = "User not authenticated"]

\* a caller invokes createTicket(ticketData)
CreateTicket(draft) ==
  /\ now' = now + 1
  /\ IF Unauthenticated(user)
     THEN /\ returned' = NotAuthenticated("create", "")
          /\ UNCHANGED calls
     ELSE /\ calls' = Started([NewCall EXCEPT !.op = "create", !.actor = user,
                                 !.draft = draft,
                                 !.pc = IF isConfigured THEN "live" ELSE "mock"])
          /\ UNCHANGED returned
  /\ UNCHANGED <<config, supabaseAvailable, connectionCheck, live, mock, user,
                 hook, notifications, sessions,
                 everAssigned>>
  /\ UNCHANGED auth

\* updateTicket up to its first await
StartUpdate(ticketId, updates) ==
  /\ now' = now + 1
  /\ IF Unauthenticated(user)
     THEN /\ returned' = NotAuthenticated("update", ticketId)
          /\ UNCHANGED calls
     ELSE /\ calls' = Started([NewCall EXCEPT !.op = "update", !.actor = user,
                                 !.id = ticketId, !.updates = updates,
                                 !.dbUpdates = DbUpdates(updates, user, now),
                                 !.pc = IF isConfigured THEN "live" ELSE "mock"])
          /\ UNCHANGED returned
  /\ UNCHANGED <<config, supabaseAvailable, connectionCheck, live, mock, user,
                 hook, notifications, sessions,
                 everAssigned>>
  /\ UNCHANGED auth

\* a caller invokes updateTicket(ticketId, updates)
UpdateTicket(ticketId, updates) == StartUpdate(ticketId, updates)

\* a caller invokes assignTicket(ticketId, assignedTo)
AssignTicket(ticketId, assignedTo) ==
  StartUpdate(ticketId, AssignPatch(assignedTo, now))

\* a caller invokes deleteTicket(ticketId)
DeleteTicket(ticketId) ==
  /\ now' = now + 1
  /\ IF Unauthenticated(user)
     THEN /\ returned' = NotAuthenticated("delete", ticketId)
          /\ UNCHANGED calls
     ELSE /\ calls' = Started([NewCall EXCEPT !.op = "delete", !.actor = user,
                                 !.id = ticketId,
                                 !.pc = IF isConfigured THEN "live" ELSE "mock"])
          /\ UNCHANGED returned
  /\ UNCHANGED <<config, supabaseAvailable, connectionCheck, live, mock, user,
                 hook, notifications, sessions,
                 everAssigned>>
  /\ UNCHANGED auth

\* a caller invokes addComment(ticketId, comment); supabase is null when the
\* backend is not configured, and the insert then throws at once
AddComment(ticketId) ==
  LET c == [NewCall EXCEPT !.op = "comment", !.actor = user, !.id = ticketId,
                           !.pc = "live"]
  IN /\ now' = now + 1
     /\ IF Unauthenticated(user)
        THEN /\ returned' = NotAuthenticated("comment", ticketId)
             /\ UNCHANGED calls
        ELSE IF ~isConfigured
        THEN /\ returned' = Ret(c, "error", "supabase is null")
             /\ UNCHANGED calls
        ELSE /\ calls' = Started(c)
             /\ UNCHANGED returned
     /\ UNCHANGED <<config, supabaseAvailable, connectionCheck, live, mock, user,
                    hook, notifications, sessions,
                    everAssigned>>
     /\ UNCHANGED auth

\* a caller invokes getTicketActivities(ticketId): dbHelpers.getTicketActivities
\* asks supabase directly, the hook's catch asks the mock provider
GetTicketActivities(ticketId) ==
  /\ calls' = Started([NewCall EXCEPT !.op = "activities", !.actor = user,
                         !.id = ticketId,
                         !.pc = IF isConfigured THEN "live" ELSE "mock"])
  /\ UNCHANGED <<config, supabaseAvailable, connectionCheck, live, mock, user,
                 hook, notifications, now, sessions,
                 everAssigned, returned>>
  /\ UNCHANGED auth

\* the live provider executes the request of the call c
LiveServe(c) ==
  LET k == SeqIndex(liveTickets, c.id, 1)
      created == LiveNewTicket(liveNextId, c.draft, c.actor, now)
      updated == LiveUpdated(liveTickets[k], c.dbUpdates)
      served == [c EXCEPT !.pc = "liveResp", !.via = "live"]
  IN /\ c.pc = "live"
     /\ c.op = "update" => k # 0
     /\ CASE c.op = "load" ->
               /\ calls' = Replaced(c, [served EXCEPT !.data =
                    OrderByCreatedDesc(Visible(liveTickets, c.actor, Role(c.actor)))])
               /\ UNCHANGED live
          [] c.op = "create" ->
               /\ liveTickets' = Append(liveTickets, created)
               /\ liveNextId' = liveNextId + 1
               /\ calls' = Replaced(c, [served EXCEPT !.data = <<created>>])
               /\ UNCHANGED liveActivities
          [] c.op = "update" ->
               /\ liveTickets' = [liveTickets EXCEPT ![k] = updated]
               /\ calls' = Replaced(c, [served EXCEPT !.data = <<updated>>])
               /\ UNCHANGED <<liveNextId, liveActivities>>
          [] c.op = "delete" ->
               /\ liveTickets' = FilterOut(liveTickets, c.id)
               /\ calls' = Replaced(c, served)
               /\ UNCHANGED <<liveNextId, liveActivities>>
          [] c.op = "comment" ->
               /\ liveActivities' = Append(liveActivities,
                    NewComment(c.id, c.actor, now))
               /\ calls' = Replaced(c, served)
               /\ UNCHANGED <<liveTickets, liveNextId>>
          [] c.op = "activities" ->
               /\ calls' = Replaced(c, [served EXCEPT !.data =
                    OrderByCreatedDesc(ActivitiesOf(liveActivities, c.id))])
               /\ UNCHANGED live
     /\ UNCHANGED <<config, supabaseAvailable, connectionCheck, mock, user, hook,
                    notifications, now, sessions, returned>>
     /\ everAssigned' = everAssigned \cup StoredAssigned(liveTickets')
     /\ UNCHANGED auth

\* withFallback's catch: does a failed live call trip the flag?
TripsFlag(op, mockFallback) == op = "load" /\ mockFallback

\* the live request of the call c fails: the catch blocks
LiveFail(c) ==
  /\ c.pc = "live"
  /\ supabaseAvailable' =
       IF TripsFlag(c.op, enableMockFallback) THEN FALSE ELSE supabaseAvailable
  /\ IF c.op = "comment"
     THEN \* addComment has no fallback: the error is rethrown
          /\ returned' = Ret([c EXCEPT !.liveFailed = TRUE], "error", "live")
          /\ calls' = Ended(c)
     ELSE /\ calls' = Replaced(c, [c EXCEPT !.pc = "mock", !.liveFailed = TRUE])
          /\ UNCHANGED returned
  /\ UNCHANGED <<config, connectionCheck, live, mock, user, hook,
                 notifications, now, sessions,
                 everAssigned>>
  /\ UNCHANGED auth

\* the live response reaches the hook: the code after the await
LiveResp(c) ==
  /\ c.pc = "liveResp"
  /\ CASE c.op = "load" ->
            /\ tickets' = c.data
            /\ loading' = FALSE
            /\ returned' = Ret(c, "ok", "none")
            /\ calls' = Ended(c)
            /\ UNCHANGED error
       [] c.op = "create" ->
            /\ tickets' = <<c.data[1]>> \o tickets
            /\ calls' = Replaced(c, [c EXCEPT !.pc = "notify"])
            /\ UNCHANGED <<loading, error, returned>>
       [] c.op = "update" ->
            /\ tickets' = MapReplace(tickets, c.id, c.data[1])
            /\ calls' = Replaced(c, [c EXCEPT !.pc = "notify"])
            /\ UNCHANGED <<loading, error, returned>>
       [] c.op = "delete" ->
            /\ tickets' = FilterOut(tickets, c.id)
            /\ returned' = Ret(c, "ok", "none")
            /\ calls' = Ended(c)
            /\ UNCHANGED <<loading, error>>
       [] c.op \in {"comment", "activities"} ->
            /\ returned' = Ret(c, "ok", "none")
            /\ calls' = Ended(c)
            /\ UNCHANGED hook
  /\ UNCHANGED <<config, supabaseAvailable, connectionCheck, live, mock, user,
                 notifications, now, sessions,
                 everAssigned>>
  /\ UNCHANGED auth

\* the mock provider's timer fires for the call c: the mock operation and the
\* code after the await
MockReturn(c) ==
  LET k == SeqIndex(currentMockTickets, c.id, 1)
      created == MockNewTicket(nextTicketId, c.draft, c.actor, now)
      updated == MockUpdated(currentMockTickets[k], c.updates, now)
      m == [c EXCEPT !.via = "mock"]
  IN /\ c.pc = "mock"
     /\ CASE c.op = "load" ->
               /\ tickets' = Visible(currentMockTickets, c.actor, Role(c.actor))
               /\ loading' = FALSE
               /\ returned' = Ret(m, "ok", "none")
               /\ calls' = Ended(c)
               /\ UNCHANGED <<mock, error>>
          [] c.op = "create" /\ c.actor \notin Users ->
               /\ returned' = Ret(m, "error", "User not found")
               /\ calls' = Ended(c)
               /\ UNCHANGED <<mock, hook>>
          [] c.op = "create" /\ c.actor \in Users ->
               /\ currentMockTickets' = <<created>> \o currentMockTickets
               /\ nextTicketId' = nextTicketId + 1
               /\ tickets' = <<created>> \o tickets
               /\ calls' = Replaced(c, [m EXCEPT !.pc = "notify", !.data = <<created>>])
               /\ UNCHANGED <<loading, error, returned>>
          [] c.op = "update" /\ k = 0 ->
               /\ returned' = Ret(m, "error", "Ticket not found")
               /\ calls' = Ended(c)
               /\ UNCHANGED <<mock, hook>>
          [] c.op = "update" /\ k # 0 ->
               /\ currentMockTickets' = [currentMockTickets EXCEPT ![k] = updated]
               /\ tickets' = MapReplace(tickets, c.id, updated)
               /\ calls' = Replaced(c, [m EXCEPT !.pc = "notify", !.data = <<updated>>])
               /\ UNCHANGED <<nextTicketId, loading, error, returned>>
          [] c.op = "delete" /\ k = 0 ->
               /\ returned' = Ret(m, "error", "Ticket not found")
               /\ calls' = Ended(c)
               /\ UNCHANGED <<mock, hook>>
          [] c.op = "delete" /\ k # 0 ->
               /\ currentMockTickets' = FilterOut(currentMockTickets, c.id)
               /\ tickets' = FilterOut(tickets, c.id)
               /\ returned' = Ret(m, "ok", "none")
               /\ calls' = Ended(c)
               /\ UNCHANGED <<nextTicketId, loading, error>>
          [] c.op = "activities" ->
               \* resolves with mockActivities(c.id, now)
               /\ returned' = Ret(m, "ok", "none")
               /\ calls' = Ended(c)
               /\ UNCHANGED <<mock, hook>>
     /\ UNCHANGED <<config, supabaseAvailable, connectionCheck, live, user,
                    notifications, now, sessions>>
     /\ everAssigned' = everAssigned \cup StoredAssigned(currentMockTickets')
     /\ UNCHANGED auth

\* variant: a throwing dispatch fails the operation
NotifyOutcomeRethrows(threw) == IF threw THEN "error" ELSE "ok"

\* the catch around the dispatch: the outcome of the call when the dispatch threw
NotifyOutcome(threw) == "ok"

\* the notification dispatch of createTicket / updateTicket, and the return
Notify(c, threw) ==
  LET t == c.data[1]
      sent == IF c.op = "create" THEN NotifyTicketCreated(t)
              ELSE UpdateNotifications(t, c.updates, c.actor)
  IN /\ c.pc = "notify"
     /\ notifications' = IF threw THEN notifications ELSE notifications \o sent
     /\ returned' = [Ret(c, NotifyOutcome(threw), "none") EXCEPT !.id = t.id]
     /\ calls' = Ended(c)
     /\ UNCHANGED <<config, supabaseAvailable, connectionCheck, live, mock, user,
                    hook, now, sessions,
                    everAssigned>>
     /\ UNCHANGED auth

\* everything of the ticket store
ticketStore == <<config, supabaseAvailable, connectionCheck, live, mock, user, hook,
                 calls, notifications, now, sessions, everAssigned, returned>>

\* useAuth is mounted anew (reload: the page is loaded anew and the module's
\* memory starts empty): useState's initial state, then getInitialSession
Remount(reload) ==
  LET session == getSession(IF reload THEN NoUser ELSE currentSession, storedSession)
  IN /\ authCalls = {}
     /\ currentSession' = session
     /\ authState' = [user |-> session, loading |-> FALSE, initialized |-> TRUE]
     /\ UNCHANGED <<storedSession, authCalls, authReturned>>
     /\ UNCHANGED ticketStore

\* a caller invokes signIn(email, password): up to the timers of lines 139
\* and of mockAuth.signInWithPassword
SignIn(email, password) ==
  LET c == [op |-> "signIn", email |-> email, password |-> password]
  IN /\ c \notin authCalls
     /\ authState' = [authState EXCEPT !.loading = TRUE]
     /\ authCalls' = authCalls \cup {c}
     /\ UNCHANGED <<currentSession, storedSession, authReturned>>
     /\ UNCHANGED ticketStore

\* the timer of mockAuth.signInWithPassword fires for the call c: the sign-in
\* and the rest of signIn
SignInReturns(c) ==
  LET err == SignInError(mockAuthUsers, c.email, c.password)
      account == mockAuthUsers[Normalize(c.email)]
  IN /\ c.op = "signIn"
     /\ authCalls' = authCalls \ {c}
     /\ IF err # "none"
        THEN /\ authState' = [authState EXCEPT !.loading = FALSE]
             /\ authReturned' = [NoAuthReturn EXCEPT !.op = "signIn",
                                   !.outcome = "error", !.error = err]
             /\ UNCHANGED <<currentSession, storedSession>>
        ELSE /\ currentSession' = account.id
             /\ storedSession' = account.id
             /\ IF ~account.is_active
                THEN /\ authState' = [authState EXCEPT !.loading = FALSE]
                     /\ authReturned' = [NoAuthReturn EXCEPT !.op = "signIn",
                                           !.outcome = "error",
                                           !.error = "Your account has been deactivated"]
                ELSE /\ authReturned' = [NoAuthReturn EXCEPT !.op = "signIn",
                                           !.outcome = "ok", !.user = account.id]
                     /\ UNCHANGED authState
     /\ UNCHANGED ticketStore

\* mockAuth.signOut and the rest of signOut
SignedOut ==
  /\ currentSession' = NoUser
  /\ storedSession' = NoUser
  /\ authReturned' = [NoAuthReturn EXCEPT !.op = "signOut", !.outcome = "ok"]

\* a caller (or the inactivity timer) invokes signOut(): with a user in the
\* state it waits for the audit log, otherwise it signs out at once
SignOut ==
  LET c == [op |-> "signOut", email |-> "", password |-> ""]
  IN /\ c \notin authCalls
     /\ authState' = [authState EXCEPT !.loading = TRUE]
     /\ IF authState.user # NoUser
        THEN /\ authCalls' = authCalls \cup {c}
             /\ UNCHANGED <<currentSession, storedSession, authReturned>>
        ELSE /\ SignedOut
             /\ UNCHANGED authCalls
     /\ UNCHANGED ticketStore

\* auditService.logEvent of the signOut call c returns (ok) or throws
AuditReturns(c, ok) ==
  /\ c.op = "signOut"
  /\ authCalls' = authCalls \ {c}
  /\ IF ok
     THEN /\ SignedOut
          /\ UNCHANGED authState
     ELSE /\ authState' = [authState EXCEPT !.loading = FALSE]
          /\ authReturned' = [NoAuthReturn EXCEPT !.op = "signOut",
                                !.outcome = "error", !.error = "audit"]
          /\ UNCHANGED <<currentSession, storedSession>>
  /\ UNCHANGED ticketStore

\* The operations a run may start: at most MaxWrites writing calls, MaxCalls
\* calls in flight and MaxSessions mounts.
Next ==
  \/ CheckSupabaseConnection
  \/ \E u \in Users \cup {NoUser} : sessions < MaxSessions /\ SessionChange(u)
  \/ HasFree(MaxCalls) /\ LoadTickets
  \/ \E d \in Drafts :
       HasFree(MaxCalls) /\ CanWrite(MaxWrites) /\ CreateTicket(d)
  \/ \E id \in KnownIds, p \in UpdateInputs :
       HasFree(MaxCalls) /\ CanWrite(MaxWrites) /\ UpdateTicket(id, p)
  \/ \E id \in KnownIds, a \in AssignInputs :
       HasFree(MaxCalls) /\ CanWrite(MaxWrites) /\ AssignTicket(id, a)
  \/ \E id \in KnownIds :
       HasFree(MaxCalls) /\ CanWrite(MaxWrites) /\ DeleteTicket(id)
  \/ \E c \in InFlight : LiveServe(c)
  \/ \E c \in InFlight : LiveFail(c)
  \/ \E c \in InFlight : LiveResp(c)
  \/ \E c \in InFlight : MockReturn(c)
  \/ \E c \in InFlight, threw \in BOOLEAN : Notify(c, threw)

Spec == Init /\ [][Next]_vars

\* The ticket operations together with the activity operations (addComment,
\* getTicketActivities): at most MaxActivityWrites writing calls in a run.
ActivityNext ==
  \/ CheckSupabaseConnection
  \/ \E u \in Users \cup {NoUser} : sessions < MaxSessions /\ SessionChange(u)
  \/ HasFree(MaxCalls) /\ LoadTickets
  \/ \E d \in Drafts :
       HasFree(MaxCalls) /\ CanWrite(MaxActivityWrites) /\ CreateTicket(d)
  \/ \E id \in KnownIds, p \in UpdateInputs :
       HasFree(MaxCalls) /\ CanWrite(MaxActivityWrites) /\ UpdateTicket(id, p)
  \/ \E id \in KnownIds, a \in AssignInputs :
       HasFree(MaxCalls) /\ CanWrite(MaxActivityWrites) /\ AssignTicket(id, a)
  \/ \E id \in KnownIds :
       HasFree(MaxCalls) /\ CanWrite(MaxActivityWrites) /\ DeleteTicket(id)
  \/ \E id \in KnownIds :
       HasFree(MaxCalls) /\ CanWrite(MaxActivityWrites) /\ AddComment(id)
  \/ \E id \in KnownIds : HasFree(MaxCalls) /\ GetTicketActivities(id)
  \/ \E c \in InFlight : LiveServe(c)
  \/ \E c \in InFlight : LiveFail(c)
  \/ \E c \in InFlight : LiveResp(c)
  \/ \E c \in InFlight : MockReturn(c)
  \/ \E c \in InFlight, threw \in BOOLEAN : Notify(c, threw)

ActivitySpec == Init /\ [][ActivityNext]_vars

\* Calls that overlap: two calls in flight, one signed-in user (the admin), one
\* draft, two patches, the ids of one fixture and of the first live row, and
\* dispatches that do not throw.
RaceUsers == {"1"}
RaceUpdateInputs == {StatusPatch("resolved"), StatusPatch("closed")}
RaceIds == {"2", "L1"} \cap KnownIds

RaceNext ==
  \/ CheckSupabaseConnection
  \/ \E u \in RaceUsers : sessions < 1 /\ SessionChange(u)
  \/ HasFree(MaxRaceCalls) /\ LoadTickets
  \/ HasFree(MaxRaceCalls) /\ TicketsChanged
  \/ HasFree(MaxRaceCalls) /\ CanWrite(MaxRaceWrites) /\ CreateTicket(ValidDraft)
  \/ \E id \in RaceIds, p \in RaceUpdateInputs :
       HasFree(MaxRaceCalls) /\ CanWrite(MaxRaceWrites) /\ UpdateTicket(id, p)
  \/ \E id \in RaceIds :
       HasFree(MaxRaceCalls) /\ CanWrite(MaxRaceWrites) /\ DeleteTicket(id)
  \/ \E c \in InFlight : LiveServe(c)
  \/ \E c \in InFlight : LiveFail(c)
  \/ \E c \in InFlight : LiveResp(c)
  \/ \E c \in InFlight : MockReturn(c)
  \/ \E c \in InFlight : Notify(c, FALSE)

RaceSpec == Init /\ [][RaceNext]_vars

\* The operations of useAuth. A timer that was set fires and a request that was
\* sent returns: the steps that end a call are weakly fair.
AuthNext ==
  \/ \E reload \in BOOLEAN : Remount(reload)
  \/ \E e \in Emails, p \in Passwords :
       Cardinality(authCalls) < MaxAuthCalls /\ SignIn(e, p)
  \/ Cardinality(authCalls) < MaxAuthCalls /\ SignOut
  \/ \E c \in authCalls : SignInReturns(c)
  \/ \E c \in authCalls, ok \in BOOLEAN : AuditReturns(c, ok)

AuthSpec ==
  /\ Init
  /\ [][AuthNext]_vars
  /\ WF_vars(\E c \in authCalls : SignInReturns(c))
  /\ WF_vars(\E c \in authCalls, ok \in BOOLEAN : AuditReturns(c, ok))

\* ================================================================= claims
ToSet(s) == {s[i] : i \in 1..Len(s)}
Row(store, id) == store[SeqIndex(store, id, 1)]
FixtureIds == {mockTickets[i].id : i \in 1..Len(mockTickets)}
Elevated(u) == Role(u) \in {"admin", "supervisor"}

\* the call c leaves `calls` in this step
Ends(c) == c \in InFlight /\ calls' = Ended(c)

\* the transition table of the lifecycle
Edge(from, to) ==
  \/ from = "open" /\ to = "assigned"
  \/ from = "assigned" /\ to \in {"in_progress", "open", "assigned", "resolved"}
  \/ from = "in_progress" /\ to \in {"open", "assigned", "resolved"}
  \/ from = "resolved" /\ to = "verified"
  \/ from = "verified" /\ to = "closed"

StatusStep(store, after) ==
  \A id \in ToSet([i \in 1..Len(store) |-> store[i].id]) :
    HasId(after, id) /\ Row(after, id).status # Row(store, id).status
      => Edge(Row(store, id).status, Row(after, id).status)

\* C1: every change of a stored ticket's status, in the mock store and in the
\* live table, follows an edge of the transition table; a requested change off
\* the table (any change out of closed included) is not applied.
C1_StatusFollowsTransitionTable ==
  [][StatusStep(currentMockTickets, currentMockTickets')
       /\ StatusStep(liveTickets, liveTickets')]_vars

StampsKept(store, after) ==
  \A id \in ToSet([i \in 1..Len(store) |-> store[i].id]) :
    HasId(after, id) =>
      /\ Row(store, id).assigned_at # NoTime
           => Row(after, id).assigned_at = Row(store, id).assigned_at
      /\ Row(store, id).resolved_at # NoTime
           => Row(after, id).resolved_at = Row(store, id).resolved_at
      /\ Row(store, id).verified_at # NoTime
           => Row(after, id).verified_at = Row(store, id).verified_at

\* C2: once assigned_at, resolved_at or verified_at of a stored ticket holds a
\* value, no step changes or clears it, in the mock store and in the live table.
C2_LifecycleStampsSetOnce ==
  [][StampsKept(currentMockTickets, currentMockTickets')
       /\ StampsKept(liveTickets, liveTickets')]_vars

\* the tickets of a store that the actor may see
SeenBy(store, actor) ==
  {t \in ToSet(store) : Elevated(actor) \/ t.created_by = actor \/ t.assigned_to = actor}

\* C3: a list returns exactly the tickets the actor may see: what the mock
\* provider hands loadTickets, what the live provider answers, and the local
\* list after the live answer arrived; each ticket once.
C3_ListReturnsVisibleTickets ==
  [][\A c \in InFlight : c.op = "load" =>
       /\ c.pc = "mock" /\ Ends(c) =>
            /\ ToSet(tickets') = SeenBy(currentMockTickets, c.actor)
            /\ Len(tickets') = Cardinality(SeenBy(currentMockTickets, c.actor))
       /\ c.pc = "live" =>
            \A d \in BagToSet(calls') :
              d.pc = "liveResp" /\ d.op = "load" /\ calls' = Replaced(c, d) =>
                /\ ToSet(d.data) = SeenBy(liveTickets, c.actor)
                /\ Len(d.data) = Cardinality(SeenBy(liveTickets, c.actor))
       /\ c.pc = "liveResp" /\ Ends(c) => tickets' = c.data]_vars

\* C3 witness: a field engineer's list came back from the mock provider with
\* some, not all, of the stored tickets.
C3_Witness ==
  /\ returned.op = "load" /\ returned.via = "mock"
  /\ user = "3" /\ calls = EmptyBag
  /\ tickets # << >>
  /\ Len(tickets) < Len(currentMockTickets)

\* C4: when createTicket fell back to the mock provider because the live call
\* failed (mock fallback enabled), the availability flag is tripped, and a list
\* that returns afterwards is served by the mock provider.
C4_FailedCreateTripsFlag ==
  /\ returned.op = "create" /\ returned.outcome = "ok" /\ returned.liveFailed
       /\ enableMockFallback
       => ~supabaseAvailable
  /\ returned.op = "load" /\ returned.outcome = "ok" /\ returned.via # "none"
       /\ isConfigured /\ enableMockFallback
       /\ (\E t \in ToSet(currentMockTickets) : t.id \notin FixtureIds)
       => returned.via = "mock"

\* C5: once supabaseAvailable is false it stays false, and no loadTickets
\* started from then on puts its withFallback call to the live provider.
C5_FlagOneDirectional ==
  [][~supabaseAvailable =>
       /\ ~supabaseAvailable'
       /\ \A d \in BagToSet(calls') :
            d.op = "load" /\ d.pc = "live"
              => CopiesIn(d, calls') <= CopiesIn(d, calls)]_vars

\* C5 witness: with the flag tripped on a configured backend, a list was served
\* by the mock provider without a live attempt.
C5_Witness ==
  /\ isConfigured /\ ~supabaseAvailable
  /\ returned.op = "load" /\ returned.via = "mock" /\ ~returned.liveFailed

\* C6: with mock fallback disabled, no list is served from the mock provider.
C6_NoMockDataWhenFallbackDisabled ==
  ~enableMockFallback => ~(returned.op = "load" /\ returned.via = "mock")

\* C7: when a supervisor's assignTicket(T, A) returns for a ticket T that field
\* engineer A created, T is assigned to A with assigned_at set and the dispatch
\* of the call creates exactly one notification, targeting A (whether or not the
\* dispatch then throws).
C7_AssignNotifiesAssignee ==
  [][\A c \in InFlight :
       /\ c.op = "update" /\ c.pc = "notify" /\ Ends(c)
       /\ Role(c.actor) = "supervisor"
       /\ c.updates.status = "assigned" /\ c.updates.assigned_to = "3"
       /\ c.data[1].created_by = "3"
       => /\ c.data[1].status = "assigned"
          /\ c.data[1].assigned_to = "3"
          /\ c.data[1].assigned_at # NoTime
          /\ UpdateNotifications(c.data[1], c.updates, c.actor) =
               <<[user_id |-> "3", ticket_id |-> c.id, event |-> "assigned"]>>]_vars

\* C8: when a list returns to the actor whose createTicket returned just
\* before, the list contains the new ticket, open, created by the actor,
\* unassigned, with created_at equal to updated_at.
C8_ListAfterCreateHasTicket ==
  [][\A c \in InFlight :
       /\ c.op = "load" /\ c.pc \in {"mock", "liveResp"} /\ Ends(c)
       /\ returned.op = "create" /\ returned.outcome = "ok"
       /\ returned.actor = c.actor
       => \E t \in ToSet(tickets') :
            /\ t.id = returned.id
            /\ t.status = "open"
            /\ t.created_by = c.actor
            /\ t.assigned_to = NoUser
            /\ t.created_at = t.updated_at]_vars

\* C9: the notification dispatch of createTicket / updateTicket, throwing or
\* not, ends the call with the ticket as its result and no error, and changes
\* neither provider store nor the local list.
C9_DispatchFailureSwallowed ==
  [][\A c \in InFlight :
       c.pc = "notify" /\ Ends(c) =>
         /\ returned'.outcome = "ok" /\ returned'.error = "none"
         /\ returned'.id = c.data[1].id
         /\ UNCHANGED <<currentMockTickets, liveTickets, tickets>>]_vars

\* C9 witness: a createTicket whose dispatch threw (no notification exists)
\* returned the ticket, which is in the store and in the local list.
C9_Witness ==
  /\ returned.op = "create" /\ returned.outcome = "ok" /\ returned.via = "mock"
  /\ notifications = << >>
  /\ HasId(currentMockTickets, returned.id)
  /\ HasId(tickets, returned.id)

\* C10: a stored ticket changes under updateTicket only when the actor is its
\* creator, its assignee, an admin or a supervisor.
Permitted(store, c) ==
  HasId(store, c.id) =>
    \/ Elevated(c.actor)
    \/ Row(store, c.id).created_by = c.actor
    \/ Row(store, c.id).assigned_to = c.actor

C10_UpdateNeedsPermission ==
  [][\A c \in InFlight : c.op = "update" =>
       /\ c.pc = "mock" /\ currentMockTickets' # currentMockTickets
            => Permitted(currentMockTickets, c)
       /\ c.pc = "live" /\ liveTickets' # liveTickets
            => Permitted(liveTickets, c)]_vars

\* C11: a deleteTicket removes a ticket from a provider store or from the local
\* list only when its actor has the admin role.
C11_DeleteNeedsAdmin ==
  [][\A c \in InFlight : c.op = "delete" =>
       /\ c.pc = "mock" /\ Ends(c)
            /\ (currentMockTickets' # currentMockTickets \/ tickets' # tickets)
            => Role(c.actor) = "admin"
       /\ c.pc = "live" /\ calls' = Replaced(c, [c EXCEPT !.pc = "liveResp", !.via = "live"])
            /\ liveTickets' # liveTickets
            => Role(c.actor) = "admin"]_vars

\* a draft that lacks a required field
Incomplete(draft) ==
  draft.title = "" \/ draft.description = "" \/ draft.location = ""

\* C12: a createTicket whose title, description or location is empty adds no
\* ticket to the store of the provider that serves it (here: the mock provider,
\* whose code is at hand) nor to the local list, and does not go on to the
\* notification dispatch of a successful create.
C12_CreateValidatesRequiredFields ==
  [][\A c \in InFlight :
       c.op = "create" /\ c.pc = "mock" /\ Incomplete(c.draft) /\ c.actor \in Users
         /\ (Ends(c) \/ \E d \in BagToSet(calls') : calls' = Replaced(c, d))
       => /\ UNCHANGED <<currentMockTickets, tickets>>
          /\ Ends(c) /\ returned'.outcome = "error"]_vars

\* C13: createTicket, updateTicket, assignTicket, deleteTicket and addComment
\* invoked while nobody is signed in return the error "User not authenticated"
\* at once: no call is started, and the provider stores, the local list and the
\* availability flag stay as they are.
C13_UnauthenticatedWritesRejected ==
  [][user = NoUser /\ now' # now =>
       /\ returned'.outcome = "error"
       /\ returned'.error = "User not authenticated"
       /\ UNCHANGED <<calls, live, mock, tickets, supabaseAvailable>>]_vars

\* C13 witness: an addComment without a signed-in user was rejected.
C13_Witness ==
  /\ user = NoUser
  /\ returned.op = "comment" /\ returned.error = "User not authenticated"
  /\ calls = EmptyBag /\ liveActivities = << >>

\* the step in which the provider (pc "mock" or "live") persists the call c
Persists(c, pc) ==
  /\ c \in InFlight /\ c.pc = pc
  /\ \E d \in BagToSet(calls') :
       /\ calls' = Replaced(c, d)
       /\ d.pc = IF pc = "mock" THEN "notify" ELSE "liveResp"

\* what assignTicket(id, assignee) is to make of the stored ticket
AssignedAsSpecified(before, after, assignee) ==
  /\ after.assigned_to = assignee
  /\ after.status = IF assignee # NoUser THEN "assigned" ELSE "open"
  /\ after.assigned_at =
       IF before.assigned_at # NoTime \/ assignee = NoUser
       THEN before.assigned_at ELSE after.assigned_at
  /\ assignee # NoUser => after.assigned_at # NoTime
  /\ after = [before EXCEPT !.assigned_to = after.assigned_to,
                            !.status = after.status,
                            !.assigned_at = after.assigned_at,
                            !.updated_at = after.updated_at]

\* C14: the ticket an assignTicket persists has assigned_to and status as
\* asked, assigned_at stamped only if it held no value (kept otherwise, also
\* when unassigning), and no other field but updated_at changed.
C14_AssignStampsFirstAssignmentOnly ==
  [][\A c \in InFlight : c.op = "update" /\ c.updates.assigned_to # Absent =>
       /\ Persists(c, "mock") =>
            AssignedAsSpecified(Row(currentMockTickets, c.id),
                                Row(currentMockTickets', c.id), c.updates.assigned_to)
       /\ Persists(c, "live") =>
            AssignedAsSpecified(Row(liveTickets, c.id),
                                Row(liveTickets', c.id), c.updates.assigned_to)]_vars

\* a stored ticket that is verified or closed carries who verified it and when
VerificationRecorded(store) ==
  \A t \in ToSet(store) :
    t.status \in {"verified", "closed"} =>
      t.verified_at # NoTime /\ t.verified_by # NoUser

\* the call c persists a ticket that enters status verified
EntersVerified(c, before, after) ==
  before.status # "verified" /\ after.status = "verified" =>
    /\ Elevated(c.actor)
    /\ after.verified_at # NoTime
    /\ after.verified_by = c.actor

\* C15: a ticket enters status verified only through an update by a supervisor
\* or an admin, which stamps verified_at and sets verified_by to that actor;
\* every stored ticket that is verified or closed has both.
C15_VerifiedBySupervisorOrAdmin ==
  [][/\ \A c \in InFlight : c.op = "update" =>
          /\ Persists(c, "mock") =>
               EntersVerified(c, Row(currentMockTickets, c.id),
                                 Row(currentMockTickets', c.id))
          /\ Persists(c, "live") =>
               EntersVerified(c, Row(liveTickets, c.id), Row(liveTickets', c.id))
     /\ VerificationRecorded(currentMockTickets')
     /\ VerificationRecorded(liveTickets')]_vars

\* C16: in every state, a stored ticket has assigned_at set if and only if it
\* has an assignee or has been stored with status assigned at least once.
C16_AssignedAtIffAssigned ==
  \A t \in ToSet(currentMockTickets) \cup ToSet(liveTickets) :
    t.assigned_at # NoTime <=> (t.assigned_to # NoUser \/ t.id \in everAssigned)

\* the type of the Activity a writing call is to append
ActivityType(c) ==
  IF c.op = "create" THEN "created"
  ELSE IF c.updates.assigned_to # Absent THEN "assigned" ELSE "status_change"

\* `after` is `before` with one Activity of the given ticket and type appended
AppendsOne(before, after, ticketId, type) ==
  /\ Len(after) = Len(before) + 1
  /\ SubSeq(after, 1, Len(before)) = before
  /\ after[Len(after)].ticket_id = ticketId
  /\ after[Len(after)].type = type

\* the persisted ticket of the call c after the step
PersistedId(c) ==
  (CHOOSE d \in BagToSet(calls') : calls' = Replaced(c, d)).data[1].id

\* C17: the step in which a createTicket, updateTicket or assignTicket is
\* persisted appends exactly one Activity of that ticket (created,
\* status_change, assigned) to the activities of the provider that served it,
\* and no step changes or removes an Activity of the live table.
C17_WritesAppendOneActivity ==
  [][/\ \A c \in InFlight :
          c.op = "update" \/ (c.op = "create" /\ ~Incomplete(c.draft)) =>
          /\ Persists(c, "live") =>
               AppendsOne(ActivitiesOf(liveActivities, PersistedId(c)),
                          ActivitiesOf(liveActivities', PersistedId(c)),
                          PersistedId(c), ActivityType(c))
          /\ Persists(c, "mock") =>
               AppendsOne(IF c.op = "create" THEN << >>
                          ELSE mockActivities(PersistedId(c), now),
                          mockActivities(PersistedId(c), now'),
                          PersistedId(c), ActivityType(c))
     /\ Len(liveActivities') >= Len(liveActivities)
     /\ SubSeq(liveActivities', 1, Len(liveActivities)) = liveActivities]_vars

\* non-increasing created_at
NewestFirst(activities) ==
  \A i \in 1..(Len(activities) - 1) :
    activities[i].created_at >= activities[i + 1].created_at

\* what the getTicketActivities call c resolves with when it ends
Resolved(c) == IF c.pc = "mock" THEN mockActivities(c.id, now) ELSE c.data

\* C18: getTicketActivities resolves with activities of the given ticket only,
\* newest first, from the live provider and from the mock provider.
C18_ActivitiesNewestFirst ==
  [][\A c \in InFlight : c.op = "activities" /\ Ends(c) =>
       /\ NewestFirst(Resolved(c))
       /\ \A a \in ToSet(Resolved(c)) : a.ticket_id = c.id]_vars

\* C19: when an update that sets assigned_to to a user reaches its notification
\* dispatch, the dispatch creates an assigned notification for the new assignee
\* if and only if the assignee is not the actor of the update.
C19_AssigneeNotifiedUnlessActor ==
  [][\A c \in InFlight :
       /\ c.op = "update" /\ c.pc = "notify" /\ Ends(c)
       /\ c.updates.assigned_to \notin {Absent, NoUser}
       => ((\E n \in ToSet(UpdateNotifications(c.data[1], c.updates, c.actor)) :
              n.event = "assigned" /\ n.user_id = c.updates.assigned_to)
           <=> c.updates.assigned_to # c.actor)]_vars

\* the overdue predicate: due_date earlier than the date, status not final
IsOverdue(t, date) ==
  /\ t.due_date # NoTime /\ t.due_date < date
  /\ t.status # "resolved" /\ t.status # "verified" /\ t.status # "closed"

\* the step in which the local list takes the result of the update call c
ListTakesUpdate(c) ==
  \/ Persists(c, "mock")
  \/ /\ c \in InFlight /\ c.pc = "liveResp"
     /\ calls' = Replaced(c, [c EXCEPT !.pc = "notify"])

\* C20: with the clock of the state as the current time, getOverdueTickets
\* holds exactly the overdue tickets of the local list and the dashboard count
\* is their number; when an update to resolved of an overdue ticket reaches the
\* list, the ticket is no longer overdue and its due_date is the same.
C20_OverdueClassification ==
  [][/\ LET overdue == ToSet(getOverdueTickets(tickets', now'))
            expected == {t \in ToSet(tickets') : IsOverdue(t, now')}
        IN /\ overdue = expected
           /\ overdueTickets(tickets', now') = Cardinality(expected)
           /\ Len(getOverdueTickets(tickets', now')) = Cardinality(expected)
     /\ \A c \in InFlight :
          /\ c.op = "update" /\ c.updates.status = "resolved" /\ ListTakesUpdate(c)
          /\ HasId(tickets, c.id)
          /\ HasId(getOverdueTickets(tickets, now), c.id)
          => /\ ~HasId(getOverdueTickets(tickets', now'), c.id)
             /\ Row(tickets', c.id).status = "resolved"
             /\ Row(tickets', c.id).due_date = Row(tickets, c.id).due_date]_vars

\* C20 witness: fixture ticket 2, in progress and past its due date, was updated
\* to resolved and is in the local list with its due date, while a ticket that
\* is still open stays overdue.
C20_Witness ==
  /\ returned.op = "update" /\ returned.id = "2" /\ returned.outcome = "ok"
  /\ HasId(tickets, "2")
  /\ Row(tickets, "2").status = "resolved"
  /\ Row(tickets, "2").due_date = mockTickets[2].due_date
  /\ Row(tickets, "2").due_date < now
  /\ HasId(tickets, "1") /\ IsOverdue(Row(tickets, "1"), now)

\* the ids of the tickets of a store or a list
IdsOf(store) == {store[i].id : i \in 1..Len(store)}

\* the call c leaves its provider step: it ends or goes on to the next step
Leaves(c) ==
  /\ c \in InFlight
  /\ calls' # calls
  /\ Ends(c) \/ \E d \in BagToSet(calls') : calls' = Replaced(c, d)

\* C21: an updateTicket with an id that no ticket has (no row of the live table
\* on a backend that counts as available, no ticket of the local list) fails
\* with the error "Ticket not found" and changes neither the live table, the
\* mock store nor the local list: the failed live update modifies no ticket of
\* the mock store.
C21_UpdateOfMissingIdFails ==
  [][\A c \in InFlight :
       /\ c.op = "update" /\ c.pc = "mock" /\ c.liveFailed /\ Leaves(c)
       /\ supabaseAvailable
       /\ c.id \notin IdsOf(liveTickets) \cup IdsOf(tickets)
       => /\ Ends(c)
          /\ returned'.outcome = "error" /\ returned'.error = "Ticket not found"
          /\ UNCHANGED <<currentMockTickets, liveTickets, tickets>>]_vars

\* the same with an id that neither the live table nor the mock store has
C21_IdInNoStore ==
  [][\A c \in InFlight :
       /\ c.op = "update" /\ c.pc = "mock" /\ Leaves(c)
       /\ c.id \notin IdsOf(liveTickets) \cup IdsOf(currentMockTickets)
       => /\ Ends(c)
          /\ returned'.outcome = "error" /\ returned'.error = "Ticket not found"
          /\ UNCHANGED <<currentMockTickets, liveTickets, tickets>>]_vars

\* the call c makes its live attempt fail in this step
LiveAttemptFails(c) ==
  /\ c \in InFlight /\ c.pc = "live"
  /\ calls' # calls
  /\ \/ calls' = Replaced(c, [c EXCEPT !.pc = "mock", !.liveFailed = TRUE])
     \/ Ends(c)

\* C24: once the availability flag is tripped, no operation of the ticket store
\* (list, create, update, assign, delete) starts a request to the live backend;
\* and, with mock fallback enabled, a failed live request of any of these
\* operations leaves the flag tripped.
C24_TrippedFlagStopsLiveAttempts ==
  [][/\ ~supabaseAvailable =>
          \A d \in BagToSet(calls') :
            d.pc = "live" => CopiesIn(d, calls') <= CopiesIn(d, calls)
     /\ \A c \in InFlight :
          LiveAttemptFails(c) /\ enableMockFallback => ~supabaseAvailable']_vars

\* the lifecycle stamp that goes with a status
StampOf(t, status) ==
  CASE status = "assigned" -> t.assigned_at
    [] status = "resolved" -> t.resolved_at
    [] status = "verified" -> t.verified_at
    [] OTHER -> NoTime

\* the ticket `after` carries what an update to `status` is to record
Stamped(after, status, actor) ==
  /\ after.status = status
  /\ StampOf(after, status) # NoTime
  /\ status = "verified" => after.verified_by = actor

\* C25: the ticket an updateTicket to resolved, assigned or verified persists,
\* for a stored ticket without that stamp, has the stamp set (and verified_by
\* for verified), whether the live provider persisted it or the mock provider
\* after the live request failed.
C25_StampsSameOnBothProviders ==
  [][\A c \in InFlight :
       c.op = "update" /\ c.updates.status \in {"assigned", "resolved", "verified"} =>
         /\ Persists(c, "live")
              /\ StampOf(Row(liveTickets, c.id), c.updates.status) = NoTime
              => Stamped(Row(liveTickets', c.id), c.updates.status, c.actor)
         /\ Persists(c, "mock") /\ c.liveFailed
              /\ StampOf(Row(currentMockTickets, c.id), c.updates.status) = NoTime
              => Stamped(Row(currentMockTickets', c.id), c.updates.status, c.actor)]_vars

\* C26: in every state, a stored ticket with status open has no assignee and a
\* stored ticket with status assigned or in_progress has one.
C26_StatusMatchesAssignee ==
  \A t \in ToSet(currentMockTickets) \cup ToSet(liveTickets) :
    /\ t.status = "open" => t.assigned_to = NoUser
    /\ t.status \in {"assigned", "in_progress"} => t.assigned_to # NoUser

\* the same for the tickets the operations store, the fixtures left aside
C26_AfterFixtures ==
  \A t \in ToSet(currentMockTickets) \cup ToSet(liveTickets) :
    t \notin ToSet(mockTickets) =>
      /\ t.status = "open" => t.assigned_to = NoUser
      /\ t.status \in {"assigned", "in_progress"} => t.assigned_to # NoUser

\* what the live provider holds for the user u, as a list answers it
LiveView(u) == OrderByCreatedDesc(Visible(liveTickets, u, Role(u)))

\* C22: when the local list shows what the live provider holds, the last list
\* before it was answered by the live provider, and the only call still in
\* flight is a loadTickets whose answer now arrives, the list still shows what
\* the provider holds: a reload that completes late does not bring back an
\* older snapshot.
C22_LateReloadKeepsNewestSnapshot ==
  [][\A c \in InFlight :
       /\ c.op = "load" /\ c.pc = "liveResp"
       /\ calls' = EmptyBag
       /\ returned.op = "load" /\ returned.via = "live" /\ returned.actor = user
       /\ tickets = LiveView(user)
       => tickets' = LiveView(user)]_vars

\* C23: when two updateTicket calls for the same ticket, with patches that set
\* different statuses, are in flight, both persisted by the live provider, and
\* the answer of one reaches the local list after the answer of the other, the
\* list's copy of the ticket is the ticket the provider stores.
C23_ConcurrentUpdatesListMatchesStore ==
  [][\A c, d \in InFlight :
       /\ c.op = "update" /\ d.op = "update" /\ c.id = d.id
       /\ c.updates.status # d.updates.status
       /\ d.pc = "notify" /\ d.via = "live"
       /\ c.pc = "liveResp"
       /\ calls' = Replaced(c, [c EXCEPT !.pc = "notify"])
       /\ HasId(tickets', c.id) /\ HasId(liveTickets, c.id)
       => Row(tickets', c.id) = Row(liveTickets, c.id)]_vars

\* C27: in every state, no two entries of the local ticket list have the same id.
C27_ListHasNoDuplicateIds ==
  Cardinality(IdsOf(tickets)) = Len(tickets)

\* the signIn that returned last signed the user u in, and no call is in flight
SignedIn(u) ==
  /\ authReturned.op = "signIn" /\ authReturned.outcome = "ok"
  /\ authReturned.user = u
  /\ authCalls = {}

\* C28: once a signIn with the correct password of an active account has
\* returned, the state of useAuth eventually shows that user (isAuthenticated)
\* with loading false, unless another signIn or signOut is called meanwhile;
\* the hook need not be mounted anew for it.
C28_SignInReachesState ==
  \A u \in Users :
    SignedIn(u) ~> (~SignedIn(u) \/ (authState.user = u /\ ~authState.loading))

\* the credentials of the call c are not those of an active account
BadCredentials(c) ==
  LET key == Normalize(c.email)
  IN \/ key \notin DOMAIN mockAuthUsers
     \/ mockAuthUsers[key].password # c.password
     \/ ~mockAuthUsers[key].is_active

\* the accounts with the account of the key deactivated
Deactivated(key) == [mockAuthUsers EXCEPT ![key].is_active = FALSE]

\* C29: a signIn with an unknown email, a wrong password or a deactivated
\* account returns an error, leaves the session in memory and in storage as
\* they are (when it starts and when it returns) and sets loading to false;
\* with the right password of a deactivated account mockAuth refuses as well.
C29_FailedSignInKeepsSession ==
  [][/\ \A c \in authCalls' \ authCalls :
          c.op = "signIn" => UNCHANGED <<currentSession, storedSession>>
     /\ \A c \in authCalls \ authCalls' :
          c.op = "signIn" /\ BadCredentials(c) =>
            /\ authReturned'.op = "signIn" /\ authReturned'.outcome = "error"
            /\ UNCHANGED <<currentSession, storedSession>>
            /\ ~authState'.loading
     /\ \A key \in DOMAIN mockAuthUsers :
          SignInError(Deactivated(key), key, mockAuthUsers[key].password)
            = "Account is deactivated"]_vars

\* C29 witness: with the admin signed in, a signIn with a wrong password was
\* refused; the admin's session is still in memory and in storage.
C29_Witness ==
  /\ authReturned.op = "signIn" /\ authReturned.error = "Invalid password"
  /\ currentSession = "1" /\ storedSession = "1"
  /\ ~authState.loading
  /\ authCalls = {}

\* the signOut that returned last succeeded
SignedOutOk == authReturned.op = "signOut" /\ authReturned.outcome = "ok"

\* the same, and no call is in flight
SignedOutQuiet == SignedOutOk /\ authCalls = {}

\* the same for a signOut that started with a user in the state of useAuth
SignedOutUserQuiet == SignedOutQuiet /\ authState.user # NoUser

\* the first half of C30: no session is left after a successful signOut
C30_NoSessionAfterSignOut ==
  SignedOutOk => getSession(currentSession, storedSession) = NoUser

\* the second half of C30: the state of useAuth follows
C30_SignOutReachesState ==
  SignedOutQuiet ~>
    (~SignedOutQuiet \/ (authState.user = NoUser /\ ~authState.loading))

\* the second half of C30 for a user the state shows
C30_SignOutClearsUser ==
  SignedOutUserQuiet ~> (~SignedOutUserQuiet \/ authState.user = NoUser)

\* C30: after a successful signOut, and until a signIn or signOut returns
\* again, getSession returns no session, and the state of useAuth eventually
\* shows no user (not authenticated) with loading false, unless another signIn
\* or signOut is called meanwhile.
C30_SignOutLeavesNoSession ==
  /\ [](SignedOutOk => getSession(currentSession, storedSession) = NoUser)
  /\ C30_SignOutReachesState

====
